---- MODULE Spec2Model ----
(***************************************************************************)
(* Model of WebSocketService (src/unnamed/part_006): a WebSocket client    *)
(* with keep-alive and reconnect/backoff, driven by a caller, by the       *)
(* events of the transports it created, and by its two kinds of timers.    *)
(*                                                                         *)
(* The runtime is a single-threaded event loop: every handler runs to      *)
(* completion, so each action below is one whole handler.  A transport     *)
(* follows the WebSocket life cycle CONNECTING -> OPEN -> CLOSING ->        *)
(* CLOSED; a failed connection fires its error event and its close event   *)
(* in the same task.  Handlers stay attached to a transport after the      *)
(* service has dropped its reference to it.                                *)
(***************************************************************************)
EXTENDS Integers, Sequences, FiniteSets, Bags, TLC

\* ---------------------------------------------------------------- bounds
MaxSockets == 5          \* transports created in one behaviour
MaxCalls   == 5          \* calls made by the owner of the service
MaxFrames  == 3          \* frames handled in one behaviour
MaxPings   == 2          \* frames sent in one behaviour
MaxNow     == 6          \* the clock of the page, in half minutes

\* ------------------------------------------------------ program constants
maxReconnectAttempts == 3
BaseDelay == 2000

NULL == 0

\* Strings are sequences of one-character strings.
http  == <<"h","t","t","p">>
wsSch == <<"w","s">>
BaseUrls ==
  { <<"h","t","t","p",":","/","/","h">>,
    <<"f","t","p",":","/","/","h">> }
ClientIds == { <<"c","1">> }

HasPrefix(s, p) == Len(s) >= Len(p) /\ SubSeq(s, 1, Len(p)) = p

\* A string as the sequence of its characters.
Chars(s) == [k \in 1..Len(s) |-> SubSeq(s, k, k)]

\* Base addresses and identifiers of other configurations.
UrlBases ==
  { Chars("http://host:1234"), Chars("https://host"),
    Chars("http://h/http"), Chars("ftp://h") }
UrlClientIds == { Chars("c1"), Chars("k9x") }

\* API_BASE_URL.replace(/^https?/, 'ws')
ReplaceHttp_AnyScheme(u) ==
  IF HasPrefix(u, Chars("https")) THEN wsSch \o SubSeq(u, 6, Len(u))
  ELSE IF HasPrefix(u, http) THEN wsSch \o SubSeq(u, Len(http) + 1, Len(u))
  ELSE u

\* API_BASE_URL.replace(/^http/, 'ws')
ReplaceHttp(u) ==
  IF HasPrefix(u, http) THEN wsSch \o SubSeq(u, Len(http) + 1, Len(u)) ELSE u

\* `${wsUrl}/ws/` without the client identifier.
FullUrl_NoId(u, id) == ReplaceHttp(u) \o <<"/","w","s","/">>

\* `${wsUrl}/ws/${this.clientId}`
FullUrl(u, id) == ReplaceHttp(u) \o <<"/","w","s","/">> \o id

\* new WebSocket(url) throws a SyntaxError unless the scheme is ws or wss.
CtorThrows(url) ==
  ~ ( HasPrefix(url, <<"w","s",":","/","/">>)
      \/ HasPrefix(url, <<"w","s","s",":","/","/">>) )

\* 2000 * Math.pow(2, this.reconnectAttempts - 1), reconnectAttempts >= 1
RECURSIVE Pow2(_)
Pow2(n) == IF n <= 0 THEN 1 ELSE 2 * Pow2(n - 1)
\* A delay that grows linearly.
BackoffDelay_Linear(attempts) == BaseDelay * attempts

BackoffDelay(attempts) == BaseDelay * Pow2(attempts - 1)

VARIABLES
  API_BASE_URL,                \* the configured base address
  clientId,                    \* this.clientId
  sockets,                     \* every transport created, in creation order
  ws,                          \* this.ws: NULL or an index into sockets
  isConnecting,                \* this.isConnecting
  reconnectAttempts,           \* this.reconnectAttempts
  pingInterval,                \* this.pingInterval: NULL or an interval id
  intervals,                   \* the setInterval timers that are active
  timers,                      \* bag of the pending reconnect timers
  onConnectionChangeCallback,  \* NULL or a listener id
  notified,                    \* connection listener calls of the last handler
  connected,                   \* the last value passed to that listener
  calls,                       \* how often the owner called connect, disconnect
  gaveUp,                      \* a close met the ceiling, no owner connect() since
  backoff,                     \* delays scheduled since the last open
  onProgressCallback,          \* NULL or a listener id
  frames,                      \* number of frames handled by ws.onmessage
  rawData,                     \* event.data of the last frame handled
  delivered,                   \* calls of the progress listener, in order
  progress,                    \* the value passed in the last of these calls
  sent,                        \* the frames passed to ws.send, in order
  now,                         \* Date.now() of the page, in milliseconds
  mounted,                     \* the Home component is mounted
  cookie,                      \* the browser's "downloadLink" cookie
  downloadLink,                \* the downloadLink state of Home
  timeLeft,                    \* the timeLeft state of Home
  countdown,                   \* the interval of the countdown effect is active
  isLoadingInfo                \* a submission is in progress

svcVars == <<ws, isConnecting, reconnectAttempts, pingInterval>>
cfgVars == <<API_BASE_URL, clientId>>
msgVars == <<onProgressCallback, frames, rawData, delivered, progress, sent>>
pageVars == <<now, mounted, cookie, downloadLink, timeLeft, countdown,
              isLoadingInfo>>
vars == <<API_BASE_URL, clientId, sockets, ws, isConnecting, reconnectAttempts,
          pingInterval, intervals, timers, onConnectionChangeCallback,
          notified, connected, calls, gaveUp, backoff, onProgressCallback,
          frames, rawData, delivered, progress, sent, now, mounted, cookie,
          downloadLink, timeLeft, countdown, isLoadingInfo>>

Listeners == {1}

\* A listener that throws when it is called, and the listeners an owner
\* may register when it does not care.
ThrowingListeners == {3}
AnyListeners == {1, 3}

\* No frame handled yet, no value passed yet.
NoData == [none |-> TRUE]

\* The page: half a minute of its clock, null for the link, no cookie.
HalfMinute == 30 * 1000
NoLink == [isNull |-> TRUE]
NoCookie == [absent |-> TRUE]

\* The page is not open and no cookie is stored.
PageClosed ==
  /\ now = HalfMinute
  /\ mounted = FALSE
  /\ cookie = NoCookie
  /\ downloadLink = NoLink
  /\ timeLeft = ""
  /\ countdown = FALSE
  /\ isLoadingInfo = FALSE

Init ==
  /\ API_BASE_URL \in BaseUrls
  /\ clientId \in ClientIds
  /\ sockets = << >>
  /\ ws = NULL
  /\ isConnecting = FALSE
  /\ reconnectAttempts = 0
  /\ pingInterval = NULL
  /\ intervals = {}
  /\ timers = EmptyBag
  /\ onConnectionChangeCallback = NULL
  /\ notified = << >>
  /\ connected = "none"
  /\ calls = [connect |-> 0, disconnect |-> 0]
  /\ gaveUp = FALSE
  /\ backoff = << >>
  /\ onProgressCallback = NULL
  /\ frames = 0
  /\ rawData = NoData
  /\ delivered = << >>
  /\ progress = NoData
  /\ sent = << >>
  /\ PageClosed

\* The registered connection-change listener throws when called.
ListenerThrows == onConnectionChangeCallback \in ThrowingListeners

\* A handler of this step called a listener that threw, outside a try
\* block: the exception leaves the handler.
Escapes ==
  \E k \in 1..Len(notified') : notified'[k].cb \in ThrowingListeners

\* A report that is true whatever happened.
Notify_AlwaysTrue(log, arg) ==
  IF onConnectionChangeCallback = NULL THEN log
  ELSE Append(log, [cb |-> onConnectionChangeCallback, arg |-> TRUE])

\* this.onConnectionChangeCallback?.(arg), after the calls in log
Notify(log, arg) ==
  IF onConnectionChangeCallback = NULL THEN log
  ELSE Append(log, [cb |-> onConnectionChangeCallback, arg |-> arg])

\* The listener's view after the calls of one handler.
Heard(log) == IF log = << >> THEN connected ELSE log[Len(log)].arg

NewSocket(url) ==
  [ readyState |-> "CONNECTING", url |-> url, closedFrom |-> "none" ]

\* WebSocket.close(): starts closing a transport that is connecting or
\* open, and does nothing to one that is closing or closed.  closedFrom
\* keeps the readyState at the first call of close().
CloseSocket(sk) ==
  [sk EXCEPT
     !.readyState = IF @ \in {"CONNECTING", "OPEN"} THEN "CLOSING" ELSE @,
     !.closedFrom = IF @ = "none" THEN sk.readyState ELSE @]

\* connect() without its second early return.
ConnectIsNoop_OnlyInFlight == isConnecting

\* The early returns of connect().
ConnectIsNoop ==
  \/ isConnecting
  \/ (ws # NULL /\ sockets[ws].readyState = "OPEN")

\* connect() with a catch block that leaves isConnecting set.
ConnectBody_FlagKept ==
  /\ UNCHANGED pageVars
  /\ UNCHANGED <<cfgVars, msgVars, reconnectAttempts, pingInterval, intervals,
                 onConnectionChangeCallback, backoff>>
  /\ IF ConnectIsNoop
     THEN /\ UNCHANGED <<sockets, ws, isConnecting, connected>>
          /\ notified' = << >>
     ELSE IF CtorThrows(FullUrl(API_BASE_URL, clientId))
     THEN /\ isConnecting' = TRUE
          /\ notified' = Notify(<< >>, FALSE)
          /\ connected' = Heard(notified')
          /\ UNCHANGED <<sockets, ws>>
     ELSE /\ Len(sockets) < MaxSockets
          /\ isConnecting' = TRUE
          /\ sockets' = Append(sockets, NewSocket(FullUrl(API_BASE_URL, clientId)))
          /\ ws' = Len(sockets) + 1
          /\ notified' = << >>
          /\ UNCHANGED connected

\* connect(), run by the owner or by a reconnect timer.
ConnectBody ==
  /\ UNCHANGED pageVars
  /\ UNCHANGED <<cfgVars, msgVars, reconnectAttempts, pingInterval, intervals,
                 onConnectionChangeCallback, backoff>>
  /\ IF ConnectIsNoop
     THEN /\ UNCHANGED <<sockets, ws, isConnecting, connected>>
          /\ notified' = << >>
     ELSE IF CtorThrows(FullUrl(API_BASE_URL, clientId))
     THEN \* the catch block
          /\ isConnecting' = FALSE
          /\ notified' = Notify(<< >>, FALSE)
          /\ connected' = Heard(notified')
          /\ UNCHANGED <<sockets, ws>>
     ELSE /\ Len(sockets) < MaxSockets
          /\ isConnecting' = TRUE
          /\ sockets' = Append(sockets, NewSocket(FullUrl(API_BASE_URL, clientId)))
          /\ ws' = Len(sockets) + 1
          /\ notified' = << >>
          /\ UNCHANGED connected

CallsMade == calls.connect + calls.disconnect

\* The owner calls connect().
Connect ==
  /\ CallsMade < MaxCalls
  /\ calls' = [calls EXCEPT !.connect = @ + 1]
  /\ gaveUp' = FALSE
  /\ UNCHANGED timers
  /\ ConnectBody

\* A reconnect timer set by onclose fires: () => this.connect().
ReconnectTimer(t) ==
  /\ BagIn(t, timers)
  /\ timers' = timers (-) SetToBag({t})
  /\ UNCHANGED <<calls, gaveUp>>
  /\ ConnectBody

\* stopPing(): the active intervals after clearInterval(this.pingInterval).
StopPing ==
  IF pingInterval = NULL THEN intervals ELSE intervals \ {pingInterval}

\* A disconnect() that restores the retry budget.
Disconnect_ResetsBudget ==
  /\ CallsMade < MaxCalls
  /\ calls' = [calls EXCEPT !.disconnect = @ + 1]
  /\ IF ws # NULL
     THEN /\ sockets' = [sockets EXCEPT ![ws] = CloseSocket(sockets[ws])]
          /\ ws' = NULL
     ELSE UNCHANGED <<sockets, ws>>
  /\ intervals' = StopPing
  /\ pingInterval' = NULL
  /\ notified' = << >>
  /\ reconnectAttempts' = 0
  /\ UNCHANGED pageVars
  /\ UNCHANGED <<cfgVars, msgVars, isConnecting, timers,
                 onConnectionChangeCallback, connected, gaveUp, backoff>>

\* The owner calls disconnect().
Disconnect ==
  /\ CallsMade < MaxCalls
  /\ calls' = [calls EXCEPT !.disconnect = @ + 1]
  /\ IF ws # NULL
     THEN /\ sockets' = [sockets EXCEPT ![ws] = CloseSocket(sockets[ws])]
          /\ ws' = NULL
     ELSE UNCHANGED <<sockets, ws>>
  /\ intervals' = StopPing
  /\ pingInterval' = NULL
  /\ notified' = << >>
  /\ UNCHANGED pageVars
  /\ UNCHANGED <<cfgVars, msgVars, isConnecting, reconnectAttempts, timers,
                 onConnectionChangeCallback, connected, gaveUp, backoff>>

\* The owner calls onConnectionChange(callback).
OnConnectionChange(cb) ==
  /\ cb # onConnectionChangeCallback
  /\ onConnectionChangeCallback' = cb
  /\ notified' = << >>
  /\ UNCHANGED pageVars
  /\ UNCHANGED <<cfgVars, msgVars, sockets, svcVars, intervals, timers, connected,
                 calls, gaveUp, backoff>>

\* ws.onopen without the reset of reconnectAttempts.
SockOpen_NoReset(i) ==
  /\ i \in 1..Len(sockets)
  /\ sockets[i].readyState = "CONNECTING"
  /\ sockets' = [sockets EXCEPT ![i].readyState = "OPEN"]
  /\ isConnecting' = FALSE
  /\ pingInterval' = i
  /\ intervals' = intervals \cup {i}
  /\ notified' = Notify(<< >>, TRUE)
  /\ connected' = Heard(notified')
  /\ UNCHANGED pageVars
  /\ UNCHANGED <<cfgVars, msgVars, ws, timers, onConnectionChangeCallback, calls,
                 gaveUp, reconnectAttempts, backoff>>

\* The open event of transport i: ws.onopen.
SockOpen(i) ==
  /\ i \in 1..Len(sockets)
  /\ sockets[i].readyState = "CONNECTING"
  /\ sockets' = [sockets EXCEPT ![i].readyState = "OPEN"]
  /\ isConnecting' = FALSE
  /\ reconnectAttempts' = 0
  /\ pingInterval' = i                      \* startPing(): a new interval
  /\ intervals' = intervals \cup {i}
  /\ notified' = Notify(<< >>, TRUE)
  /\ connected' = Heard(notified')
  /\ backoff' = << >>
  /\ UNCHANGED pageVars
  /\ UNCHANGED <<cfgVars, msgVars, ws, timers, onConnectionChangeCallback, calls,
                 gaveUp>>

\* Variants of the reconnect decision: an inclusive comparison, a ceiling
\* one too low, and no reconnect after disconnect().
ShouldReconnect_Inclusive(i) == reconnectAttempts <= maxReconnectAttempts
ShouldReconnect_OneShort(i) == reconnectAttempts < maxReconnectAttempts - 1
ShouldReconnect_UnlessManual(i) ==
  reconnectAttempts < maxReconnectAttempts /\ sockets[i].closedFrom = "none"

\* The reconnect decision of ws.onclose of transport i.
ShouldReconnect(i) == reconnectAttempts < maxReconnectAttempts

\* setTimeout(() => this.connect(), delay) in the onclose of transport i;
\* afterDisconnect tells that disconnect() had closed i while it was open.
NewTimer(i) ==
  [ delay |-> BackoffDelay(reconnectAttempts + 1),
    afterDisconnect |-> sockets[i].closedFrom = "OPEN" ]

\* ws.onclose of transport i, run after the listener calls in log.  The
\* listener is called before the reconnect decision and outside any try
\* block: if it throws, the handler ends there.
OnCloseHandler(i, log, opName) ==
  /\ isConnecting' = FALSE
  /\ intervals' = StopPing
  /\ pingInterval' = NULL
  /\ notified' = Notify(log, FALSE)
  /\ connected' = Heard(notified')
  /\ IF ListenerThrows
     THEN UNCHANGED <<reconnectAttempts, timers, backoff, gaveUp>>
     ELSE IF ShouldReconnect(i)
     THEN /\ reconnectAttempts' = reconnectAttempts + 1
          /\ timers' = timers (+) SetToBag({NewTimer(i)})
          /\ backoff' = Append(backoff, BackoffDelay(reconnectAttempts + 1))
          /\ UNCHANGED gaveUp
     ELSE /\ UNCHANGED <<reconnectAttempts, timers, backoff>>
          /\ gaveUp' = TRUE
  /\ UNCHANGED pageVars
  /\ UNCHANGED <<cfgVars, msgVars, ws, onConnectionChangeCallback, calls>>

\* Transport i closes without an error: its close event.
SockClose(i) ==
  /\ i \in 1..Len(sockets)
  /\ \/ sockets[i].readyState = "OPEN"
     \/ sockets[i].readyState = "CLOSING" /\ sockets[i].closedFrom = "OPEN"
  /\ sockets' = [sockets EXCEPT ![i].readyState = "CLOSED"]
  /\ OnCloseHandler(i, << >>, "close")

\* Transport i fails: its error event (ws.onerror), then its close event.
SockFail(i) ==
  /\ i \in 1..Len(sockets)
  /\ sockets[i].readyState \in {"CONNECTING", "OPEN", "CLOSING"}
  /\ sockets' = [sockets EXCEPT ![i].readyState = "CLOSED"]
  /\ OnCloseHandler(i, Notify(<< >>, FALSE), "fail")

Next ==
  \/ Connect
  \/ Disconnect
  \/ \E cb \in Listeners : OnConnectionChange(cb)
  \/ \E t \in BagToSet(timers) : ReconnectTimer(t)
  \/ \E i \in 1..Len(sockets) : SockOpen(i)
  \/ \E i \in 1..Len(sockets) : SockClose(i)
  \/ \E i \in 1..Len(sockets) : SockFail(i)

Spec == Init /\ [][Next]_vars

TypeOK ==
  /\ ws \in 0..Len(sockets)
  /\ isConnecting \in BOOLEAN
  /\ reconnectAttempts \in Nat
  /\ Len(sockets) <= MaxSockets

\* getClientId()
getClientId == clientId

\* The service with a listener that may throw.
NextThrow ==
  \/ Connect
  \/ \E cb \in AnyListeners : OnConnectionChange(cb)
  \/ \E t \in BagToSet(timers) : ReconnectTimer(t)
  \/ \E i \in 1..Len(sockets) : SockOpen(i)
  \/ \E i \in 1..Len(sockets) : SockClose(i)
  \/ \E i \in 1..Len(sockets) : SockFail(i)

SpecThrow == Init /\ [][NextThrow]_vars

\* ------------------------------------------------------- inbound frames

\* The text of a frame: a JSON object written as its members in order,
\* the JSON literal null, or text that is not JSON.
JSONObject(ms) == [json |-> "object", members |-> ms]
JSONNull == [json |-> "null"]
NotJSON == [json |-> "garbage"]

Frames ==
  { JSONObject(<< <<"status", "log">>, <<"level", "debug">>,
                  <<"message", "Downloading webpage">> >>),
    JSONObject(<< <<"status", "log">>, <<"level", "info">>,
                  <<"message", "Downloading webpage">> >>),
    JSONObject(<< <<"status", "downloading">>, <<"level", "debug">>,
                  <<"message", "Downloading webpage">>,
                  <<"progress", 50>> >>),
    JSONObject(<< <<"status", "log">>, <<"level", "debug">>,
                  <<"message", "[download] Destination: a.mp4">> >>),
    JSONObject(<< <<"status", "log">>, <<"level", "debug">> >>),
    JSONObject(<< <<"status", "log">>, <<"level", "debug">>,
                  <<"message", "x [DEBUG] y">> >>),
    JSONObject(<< <<"status", "log">>, <<"level", "debug">>,
                  <<"message", "Downloading api">>,
                  <<"level", "warning">> >>),
    JSONObject(<< <<"status", "complete">>, <<"filename", "a.mp4">> >>),
    JSONNull,
    NotJSON }

\* The value null, which has no properties.
JsNull == [null |-> TRUE]

\* A parser that turns text that is not JSON into an error event.
JSONParse_Lenient(raw) ==
  IF raw.json = "garbage" THEN [ok |-> TRUE, value |-> [status |-> "error"]]
  ELSE IF raw.json = "null" THEN [ok |-> TRUE, value |-> JsNull]
  ELSE LET ms == raw.members
           last(k) == CHOOSE j \in 1..Len(ms) :
                        /\ ms[j][1] = k
                        /\ \A h \in (j + 1)..Len(ms) : ms[h][1] # k
       IN [ok |-> TRUE,
           value |-> [k \in {ms[j][1] : j \in 1..Len(ms)} |-> ms[last(k)][2]]]

\* JSON.parse(rawData): a SyntaxError for text that is not JSON; an object
\* holds, for each name, the value of its last member of that name.
JSONParse(raw) ==
  IF raw.json = "garbage" THEN [ok |-> FALSE]
  ELSE IF raw.json = "null" THEN [ok |-> TRUE, value |-> JsNull]
  ELSE LET ms == raw.members
           last(k) == CHOOSE j \in 1..Len(ms) :
                        /\ ms[j][1] = k
                        /\ \A h \in (j + 1)..Len(ms) : ms[h][1] # k
       IN [ok |-> TRUE,
           value |-> [k \in {ms[j][1] : j \in 1..Len(ms)} |-> ms[last(k)][2]]]

UpperCase == "ABCDEFGHIJKLMNOPQRSTUVWXYZ"
LowerCase == "abcdefghijklmnopqrstuvwxyz"
LowerChar(c) ==
  IF \E k \in 1..26 : SubSeq(UpperCase, k, k) = c
  THEN LET k == CHOOSE k \in 1..26 : SubSeq(UpperCase, k, k) = c
       IN SubSeq(LowerCase, k, k)
  ELSE c

\* The i flag: both sides are compared in lower case.
RECURSIVE ToLower(_)
ToLower(s) ==
  IF Len(s) = 0 THEN s
  ELSE LowerChar(SubSeq(s, 1, 1)) \o ToLower(SubSeq(s, 2, Len(s)))

\* s has p at position k.
HasAt(s, k, p) == k >= 1 /\ k + Len(p) - 1 <= Len(s) /\ SubSeq(s, k, k + Len(p) - 1) = p

\* /literal/i.test(message)
TestLiteral(literal, message) ==
  LET m == ToLower(message)
      p == ToLower(literal)
  IN \E k \in 1..(Len(m) + 1) : HasAt(m, k, p)

\* \w
IsWordChar(c) ==
  \E k \in 1..37 : SubSeq("abcdefghijklmnopqrstuvwxyz0123456789_", k, k) = LowerChar(c)

\* /\[generic\] \w+: Downloading webpage/i.test(message)
TestGenericWebpage(message) ==
  LET m == ToLower(message) IN
  \E a \in 1..Len(m) : \E b \in (a + 10)..Len(m) :
    /\ HasAt(m, a, "[generic] ")
    /\ \A k \in (a + 10)..b : IsWordChar(SubSeq(m, k, k))
    /\ HasAt(m, b + 1, ": downloading webpage")

\* LOG_PATTERNS.FILTER, without its last pattern
FILTER ==
  << "[debug]", "Downloading webpage", "Downloading api", "Downloading m3u8",
     "Downloading MPD manifest", "Downloading JSON metadata" >>

\* shouldFilterLog(message)
shouldFilterLog(message) ==
  \/ \E k \in 1..Len(FILTER) : TestLiteral(FILTER[k], message)
  \/ TestGenericWebpage(message)

\* data.message || ''
MessageOrEmpty(data) ==
  IF "message" \in DOMAIN data THEN data["message"] ELSE ""

\* The filter without its test of the level.
IsFilteredDebug_AnyLevel(data) ==
  /\ "status" \in DOMAIN data /\ data["status"] = "log"
  /\ shouldFilterLog(MessageOrEmpty(data))

\* data.status === 'log' && data.level === 'debug' &&
\* shouldFilterLog(data.message || '')
IsFilteredDebug(data) ==
  /\ "status" \in DOMAIN data /\ data["status"] = "log"
  /\ "level" \in DOMAIN data /\ data["level"] = "debug"
  /\ shouldFilterLog(MessageOrEmpty(data))

\* The event passed on without its level.
Passed_NoLevel(data) == [k \in DOMAIN data \ {"level"} |-> data[k]]

\* The value ws.onmessage passes to the progress listener.
Passed(data) == data

\* What ws.onmessage does with event.data = raw: "dropped" in the catch
\* block (JSON.parse threw, or reading data.status of null threw),
\* "filtered" at the early return, "passed" otherwise.
Outcome(raw) ==
  LET r == JSONParse(raw) IN
  IF ~r.ok THEN "dropped"
  ELSE IF r.value = JsNull THEN "dropped"
  ELSE IF IsFilteredDebug(r.value) THEN "filtered"
  ELSE "passed"

\* Outcome, worked out once for each frame.
Outcomes == [raw \in Frames |-> Outcome(raw)]

ProgressListeners == {1, 2}

\* A handler that puts the newest event first.
OnMessage_NewestFirst(i, raw) ==
  /\ i \in 1..Len(sockets)
  /\ sockets[i].readyState = "OPEN"
  /\ frames < MaxFrames
  /\ frames' = frames + 1
  /\ rawData' = raw
  /\ IF Outcomes[raw] = "passed" /\ onProgressCallback # NULL
     THEN /\ delivered' = <<[n |-> frames + 1, cb |-> onProgressCallback]>>
                            \o delivered
          /\ progress' = Passed(JSONParse(raw).value)
     ELSE UNCHANGED <<delivered, progress>>
  /\ notified' = << >>
  /\ UNCHANGED pageVars
  /\ UNCHANGED <<cfgVars, sockets, svcVars, intervals, timers,
                 onConnectionChangeCallback, connected, calls, gaveUp,
                 backoff, onProgressCallback, sent>>

\* A handler that keeps calling the first listener.
OnMessage_FirstListener(i, raw) ==
  /\ i \in 1..Len(sockets)
  /\ sockets[i].readyState = "OPEN"
  /\ frames < MaxFrames
  /\ frames' = frames + 1
  /\ rawData' = raw
  /\ IF Outcomes[raw] = "passed" /\ onProgressCallback # NULL
     THEN /\ delivered' = Append(delivered, [n |-> frames + 1, cb |-> 1])
          /\ progress' = Passed(JSONParse(raw).value)
     ELSE UNCHANGED <<delivered, progress>>
  /\ notified' = << >>
  /\ UNCHANGED pageVars
  /\ UNCHANGED <<cfgVars, sockets, svcVars, intervals, timers,
                 onConnectionChangeCallback, connected, calls, gaveUp,
                 backoff, onProgressCallback, sent>>

\* A frame arrives on transport i while it is open: ws.onmessage.
OnMessage(i, raw) ==
  /\ i \in 1..Len(sockets)
  /\ sockets[i].readyState = "OPEN"
  /\ frames < MaxFrames
  /\ frames' = frames + 1
  /\ rawData' = raw
  /\ IF Outcomes[raw] = "passed" /\ onProgressCallback # NULL
     THEN /\ delivered' = Append(delivered,
                                 [n |-> frames + 1, cb |-> onProgressCallback])
          /\ progress' = Passed(JSONParse(raw).value)
     ELSE UNCHANGED <<delivered, progress>>
  /\ notified' = << >>
  /\ UNCHANGED pageVars
  /\ UNCHANGED <<cfgVars, sockets, svcVars, intervals, timers,
                 onConnectionChangeCallback, connected, calls, gaveUp,
                 backoff, onProgressCallback, sent>>

\* The owner calls onProgress(callback).
OnProgress(cb) ==
  /\ cb # onProgressCallback
  /\ onProgressCallback' = cb
  /\ notified' = << >>
  /\ UNCHANGED pageVars
  /\ UNCHANGED <<cfgVars, sockets, svcVars, intervals, timers,
                 onConnectionChangeCallback, connected, calls, gaveUp,
                 backoff, frames, rawData, delivered, progress, sent>>

\* The service with a reachable server: it connects, opens, receives
\* frames, and is disconnected; listeners are registered and replaced.
NextMsg ==
  \/ Connect
  \/ Disconnect
  \/ \E cb \in ProgressListeners : OnProgress(cb)
  \/ \E cb \in ProgressListeners : OnConnectionChange(cb)
  \/ \E i \in 1..Len(sockets) : SockOpen(i)
  \/ \E i \in 1..Len(sockets) : \E raw \in Frames : OnMessage(i, raw)

SpecMsg == Init /\ [][NextMsg]_vars

\* The service with frames arriving while transports open and close: the
\* owner connects and disconnects, and a frame arrives on any transport
\* that is open, referenced or not.
NextStale ==
  \/ Connect
  \/ Disconnect
  \/ OnProgress(1)
  \/ \E i \in 1..Len(sockets) : SockOpen(i)
  \/ \E i \in 1..Len(sockets) : SockClose(i)
  \/ \E i \in 1..Len(sockets) : \E raw \in Frames : OnMessage(i, raw)

SpecStale == Init /\ [][NextStale]_vars

\* ------------------------------------------------------------ keep-alive

\* A tick that sends whenever a transport is held.
PingTick_Unchecked(k) ==
  /\ k \in intervals
  /\ Len(sent) < MaxPings
  /\ IF ws # NULL
     THEN sent' = Append(sent, [to |-> ws, data |-> "ping",
                               readyState |-> sockets[ws].readyState])
     ELSE UNCHANGED sent
  /\ notified' = << >>
  /\ UNCHANGED pageVars
  /\ UNCHANGED <<cfgVars, sockets, svcVars, intervals, timers,
                 onConnectionChangeCallback, connected, calls, gaveUp,
                 backoff, onProgressCallback, frames, rawData, delivered,
                 progress>>

\* The interval k started by startPing() ticks: this.ws.send('ping') if
\* the current transport is open.  An entry of sent keeps the readyState
\* of the transport at the call.
PingTick(k) ==
  /\ k \in intervals
  /\ Len(sent) < MaxPings
  /\ IF ws # NULL /\ sockets[ws].readyState = "OPEN"
     THEN sent' = Append(sent, [to |-> ws, data |-> "ping",
                               readyState |-> sockets[ws].readyState])
     ELSE UNCHANGED sent
  /\ notified' = << >>
  /\ UNCHANGED pageVars
  /\ UNCHANGED <<cfgVars, sockets, svcVars, intervals, timers,
                 onConnectionChangeCallback, connected, calls, gaveUp,
                 backoff, onProgressCallback, frames, rawData, delivered,
                 progress>>

\* The service with its keep-alive: it connects, opens, is closed by the
\* server or by the owner, and its intervals tick.
NextPing ==
  \/ Connect
  \/ Disconnect
  \/ \E i \in 1..Len(sockets) : SockOpen(i)
  \/ \E i \in 1..Len(sockets) : SockClose(i)
  \/ \E k \in intervals : PingTick(k)

SpecPing == Init /\ [][NextPing]_vars

\* ------------------------------------------------------ the download link
\* Home (src/app/page.tsx) keeps the link of the last download in its state
\* and in a cookie.  Effects run to completion with the render that
\* follows a state update, so each action below is one such run.

\* A link: its creation time in milliseconds and its lifetime in minutes.
Link(c, e) == [created_at |-> c, expires_in_minutes |-> e]

\* JSON.stringify(downloadLink): the text of an object with these members.
JSONStringify(link) == [syntax |-> "object", value |-> link]

\* Texts a stored cookie may hold: the empty string, a text that is not
\* JSON, the text null, an object without the two members, and links,
\* whose created_at is a value of Date.now() and so positive.
EmptyObject == [members |-> 0]
Lifetimes == {0, 1, 2}
SavedTexts ==
  { [syntax |-> "empty", value |-> NoLink],
    [syntax |-> "invalid", value |-> NoLink],
    [syntax |-> "null", value |-> NoLink],
    [syntax |-> "object", value |-> EmptyObject] }
  \cup { JSONStringify(Link(c, e)) : c \in {HalfMinute, 3 * HalfMinute},
                                     e \in Lifetimes }

\* A cookie that the browser never drops.
Session == (MaxNow + 2) * HalfMinute * 100

\* Cookies.get("downloadLink") at time t: the text, unless the browser has
\* dropped the cookie.
CookiesGet(t) ==
  IF cookie = NoCookie \/ t >= cookie.expires THEN NoCookie ELSE cookie

\* JSON.parse(text) throws, or reading a member of its result (null) does.
ParseThrows(text) == text.syntax \in {"invalid", "null"}

\* parsedLink.created_at + parsedLink.expires_in_minutes * 60 * 1000
ExpiryTime(link) == link.created_at + link.expires_in_minutes * 60 * 1000

\* Date.now() < expiryTime; a missing member makes expiryTime NaN and the
\* comparison false.
Unexpired(value, t) ==
  /\ value # EmptyObject
  /\ t < ExpiryTime(value)

\* What the effect of lines 189-209 passes to setDownloadLink at time t
\* (NoLink when it passes nothing).
Restored(t) ==
  LET saved == CookiesGet(t)
  IN IF /\ saved # NoCookie
        /\ saved.value.syntax # "empty"
        /\ ~ParseThrows(saved.value)
        /\ Unexpired(saved.value.value, t)
     THEN saved.value.value
     ELSE NoLink

\* The text shown for diff milliseconds left.
FormatTimeLeft(diff) ==
  LET totalMinutes == diff \div (1000 * 60)
      hours == totalMinutes \div 60
      minutes == totalMinutes % 60
      seconds == (diff % (1000 * 60)) \div 1000
  IN IF hours > 0 THEN ToString(hours) \o "h " \o ToString(minutes) \o "m"
     ELSE IF minutes > 0
     THEN ToString(minutes) \o "m " \o ToString(seconds) \o "s"
     ELSE ToString(seconds) \o "s"

\* A link that is cleared only after its expiry time.
UpdateTimeLeft_Late(link, t, stored) ==
  LET diff == ExpiryTime(link) - t
  IN IF diff < 0
     THEN /\ timeLeft' = "Expired"
          /\ downloadLink' = NoLink
          /\ cookie' = NoCookie
          /\ countdown' = FALSE
     ELSE /\ timeLeft' = FormatTimeLeft(diff)
          /\ downloadLink' = link
          /\ cookie' = stored
          /\ countdown' = TRUE

\* updateTimeLeft at time t for the link of the running countdown; stored
\* is the cookie at that time.  Clearing the link ends the countdown in
\* the render that follows.
UpdateTimeLeft(link, t, stored) ==
  LET diff == ExpiryTime(link) - t
  IN IF diff <= 0
     THEN /\ timeLeft' = "Expired"
          /\ downloadLink' = NoLink
          /\ cookie' = NoCookie
          /\ countdown' = FALSE
     ELSE /\ timeLeft' = FormatTimeLeft(diff)
          /\ downloadLink' = link
          /\ cookie' = stored
          /\ countdown' = TRUE

\* The effects of a render in which downloadLink has become link, at time
\* t: the cookie is written or removed (lines 211-220), then the countdown
\* starts with an immediate update unless the link is null or its
\* created_at is falsy (lines 222-262).
Render(link, t) ==
  LET stored ==
        IF link # NoLink
        THEN [value |-> JSONStringify(link),
              expires |-> t + (link.expires_in_minutes * 24 * 60 * 60 * 1000)
                               \div (24 * 60)]
        ELSE NoCookie
  IN IF link # NoLink /\ link.created_at # 0
     THEN UpdateTimeLeft(link, t, stored)
     ELSE /\ downloadLink' = link
          /\ cookie' = stored
          /\ countdown' = FALSE
          /\ UNCHANGED timeLeft

ServiceUntouched ==
  UNCHANGED <<cfgVars, msgVars, svcVars, sockets, intervals, timers,
              onConnectionChangeCallback, notified, connected, calls, gaveUp,
              backoff>>

\* The page is opened: the three effects run with a null link, then the
\* render that follows the restore runs them again; the clock may move
\* between the two.
Mount ==
  /\ ~mounted
  /\ mounted' = TRUE
  /\ \E later \in {now, now + HalfMinute} :
       /\ later <= MaxNow * HalfMinute
       /\ now' = later
       /\ Render(Restored(now), later)
  /\ UNCHANGED isLoadingInfo
  /\ ServiceUntouched

\* The page is closed or reloaded: its state is lost, the cookie stays.
Unmount ==
  /\ mounted
  /\ mounted' = FALSE
  /\ downloadLink' = NoLink
  /\ timeLeft' = ""
  /\ countdown' = FALSE
  /\ isLoadingInfo' = FALSE
  /\ UNCHANGED <<now, cookie>>
  /\ ServiceUntouched

\* Half a minute passes.
Elapse ==
  /\ now < MaxNow * HalfMinute
  /\ now' = now + HalfMinute
  /\ UNCHANGED <<mounted, cookie, downloadLink, timeLeft, countdown,
                 isLoadingInfo>>
  /\ ServiceUntouched

\* The interval of the countdown fires.
Tick ==
  /\ mounted
  /\ countdown
  /\ UpdateTimeLeft(downloadLink, now, cookie)
  /\ UNCHANGED <<now, mounted, isLoadingInfo>>
  /\ ServiceUntouched

\* onSubmit up to its first request: setDownloadLink(null).
Submit ==
  /\ mounted
  /\ ~isLoadingInfo
  /\ isLoadingInfo' = TRUE
  /\ Render(NoLink, now)
  /\ UNCHANGED <<now, mounted>>
  /\ ServiceUntouched

\* onSubmit after the download response: a link created now.
LinkReady(e) ==
  /\ mounted
  /\ isLoadingInfo
  /\ isLoadingInfo' = FALSE
  /\ Render(Link(now, e), now)
  /\ UNCHANGED <<now, mounted>>
  /\ ServiceUntouched

\* onSubmit fails.
SubmitFails ==
  /\ mounted
  /\ isLoadingInfo
  /\ isLoadingInfo' = FALSE
  /\ UNCHANGED <<now, mounted, cookie, downloadLink, timeLeft, countdown>>
  /\ ServiceUntouched

InitPage ==
  /\ API_BASE_URL = Chars("http://h")
  /\ clientId \in ClientIds
  /\ sockets = << >>
  /\ ws = NULL
  /\ isConnecting = FALSE
  /\ reconnectAttempts = 0
  /\ pingInterval = NULL
  /\ intervals = {}
  /\ timers = EmptyBag
  /\ onConnectionChangeCallback = NULL
  /\ notified = << >>
  /\ connected = "none"
  /\ calls = [connect |-> 0, disconnect |-> 0]
  /\ gaveUp = FALSE
  /\ backoff = << >>
  /\ onProgressCallback = NULL
  /\ frames = 0
  /\ rawData = NoData
  /\ delivered = << >>
  /\ progress = NoData
  /\ sent = << >>
  /\ now = HalfMinute
  /\ mounted = FALSE
  /\ cookie \in {NoCookie}
                \cup {[value |-> text, expires |-> Session] : text \in SavedTexts}
  /\ downloadLink = NoLink
  /\ timeLeft = ""
  /\ countdown = FALSE
  /\ isLoadingInfo = FALSE

NextPage ==
  \/ Mount
  \/ Unmount
  \/ Elapse
  \/ Tick
  \/ Submit
  \/ \E e \in Lifetimes : LinkReady(e)
  \/ SubmitFails

SpecPage == InitPage /\ [][NextPage]_vars

\* ------------------------------------------------------------------ claims

Live(i) == sockets[i].readyState \in {"CONNECTING", "OPEN"}
ClosedByOwnerWhileOpen(i) == sockets[i].closedFrom = "OPEN"
Pending == BagCardinality(timers)

\* Which handler a step is, read off the state.
OwnerConnects == calls'.connect # calls.connect
OwnerDisconnects == calls'.disconnect # calls.disconnect
TimerFires == Pending' < Pending
Opens(i) ==
  sockets[i].readyState = "CONNECTING" /\ sockets'[i].readyState = "OPEN"

\* C1: connect() while a connection attempt is in flight or while the
\* current transport is OPEN is a no-op: no transport is created, no
\* listener is invoked, and the handle, isConnecting, reconnectAttempts
\* and the keep-alive timer are unchanged.
C1_ConnectIdempotent ==
  [][ ( /\ OwnerConnects \/ TimerFires
        /\ (isConnecting \/ (ws # NULL /\ sockets[ws].readyState = "OPEN")) )
      => /\ UNCHANGED <<sockets, ws, isConnecting, reconnectAttempts,
                        pingInterval, intervals, connected>>
         /\ notified' = << >> ]_vars

\* Two connect() calls and no disconnect(), yet one transport, open and
\* never closed: one of the calls came while it was connecting or open.
C1_Witness ==
  /\ calls = [connect |-> 2, disconnect |-> 0]
  /\ Len(sockets) = 1 /\ ws = 1
  /\ sockets[1].readyState = "OPEN"
  /\ pingInterval = 1 /\ isConnecting = FALSE

\* C2: while a transport is still pending (CONNECTING), no connect() call,
\* by the owner or by a reconnect timer, creates another transport.
C2_OneTransportPerPending ==
  [][ (\E i \in 1..Len(sockets) : sockets[i].readyState = "CONNECTING")
      => Len(sockets') = Len(sockets) ]_vars

\* C3: every transport that is CONNECTING or OPEN is the one the handle
\* references, so at most one transport is live, and none is live while
\* the handle is null, as it is after disconnect().
C3_HandleOwnsLiveTransport ==
  \A i \in 1..Len(sockets) : Live(i) => ws = i

\* C4: between two opens (or from construction), at most 3 reconnects
\* are scheduled.
C4_AtMostThreeReconnects == Len(backoff) <= 3

\* A close event was handled at the ceiling, after 3 scheduled reconnects.
C4_Witness == Len(backoff) = 3 /\ gaveUp

\* C5: the k-th consecutive reconnect scheduled without an open in
\* between is delayed by 2000 * 2^(k-1) ms: 2000, 4000, 8000.
C5_BackoffDoubles ==
  /\ \A k \in 1..Len(backoff) : backoff[k] = 2000 * (2 ^ (k - 1))
  /\ \A k \in 2..Len(backoff) : backoff[k] >= 2 * backoff[k - 1]

C5_Witness == backoff = <<2000, 4000, 8000>>

\* C6: once a close event has been handled at the ceiling, no reconnect
\* timer is scheduled and no transport is created until the owner calls
\* connect(), and that connect() creates a new transport.
C6_CeilingIsTerminal ==
  [][ gaveUp =>
        /\ ~OwnerConnects => /\ Len(sockets') = Len(sockets)
                             /\ Pending' <= Pending
        /\ OwnerConnects => Len(sockets') = Len(sockets) + 1 ]_vars

\* The server is unreachable: no transport ever opens.
NextNoOpen ==
  \/ Connect
  \/ Disconnect
  \/ \E cb \in Listeners : OnConnectionChange(cb)
  \/ \E t \in BagToSet(timers) : ReconnectTimer(t)
  \/ \E i \in 1..Len(sockets) : SockFail(i)

\* Timers fire, and a connection attempt does not stay pending for ever.
SpecNoOpen ==
  /\ Init /\ [][NextNoOpen]_vars
  /\ WF_vars(\E t \in BagToSet(timers) : ReconnectTimer(t))
  /\ WF_vars(\E i \in 1..Len(sockets) : SockFail(i))

\* The owner has called connect() once, which created the first transport,
\* and nothing else.
OnlyFirstConnect ==
  calls = [connect |-> 1, disconnect |-> 0] /\ Len(sockets) >= 1
Quiescent ==
  /\ timers = EmptyBag
  /\ \A i \in 1..Len(sockets) : sockets[i].readyState = "CLOSED"

\* C7: when no attempt ever opens and the owner only made the first
\* connect(), the channel creates the initial transport and 3 reconnects,
\* never a fifth, and then becomes quiescent.
C7_QuiescentAfterFour ==
  /\ [](OnlyFirstConnect => Len(sockets) <= 4)
  /\ OnlyFirstConnect ~>
       (~OnlyFirstConnect \/ (Quiescent /\ Len(sockets) = 4))

C7_Witness ==
  /\ OnlyFirstConnect /\ Quiescent /\ Len(sockets) = 4
  /\ reconnectAttempts = 3

\* C8: handling an open event leaves reconnectAttempts at 0 and
\* isConnecting false, whatever they were before, so the whole budget of
\* 3 reconnects is available again.
C8_OpenResets ==
  [][ (\E i \in 1..Len(sockets) : Opens(i))
      => /\ reconnectAttempts' = 0
         /\ isConnecting' = FALSE
         /\ maxReconnectAttempts - reconnectAttempts' = 3 ]_vars

\* Transport 1 closed and scheduled a reconnect, which is still pending
\* (so reconnectAttempts was 1); transport 2 opened since and reset it.
C8_Witness ==
  /\ Len(sockets) = 2
  /\ sockets[1].readyState = "CLOSED" /\ sockets[1].closedFrom = "none"
  /\ sockets[2].readyState = "OPEN" /\ ws = 2
  /\ Pending = 1
  /\ reconnectAttempts = 0 /\ isConnecting = FALSE

\* C9: after disconnect() the handle is null, the keep-alive timer is
\* cleared and close() was called on the transport that was held; when no
\* transport is held, disconnect() changes no state and calls no listener.
C9_Disconnect ==
  [][ OwnerDisconnects =>
        /\ ws' = NULL
        /\ pingInterval' = NULL
        /\ pingInterval # NULL => pingInterval \notin intervals'
        /\ ws # NULL => /\ sockets'[ws].closedFrom # "none"
                        /\ sockets'[ws].readyState \in {"CLOSING", "CLOSED"}
        /\ ws = NULL => /\ UNCHANGED <<sockets, ws, isConnecting,
                                       reconnectAttempts, pingInterval,
                                       intervals, timers, connected,
                                       onConnectionChangeCallback>>
                        /\ notified' = << >> ]_vars

\* The close event of a transport that disconnect() closed while open.
CloseAfterDisconnect(i) ==
  /\ ClosedByOwnerWhileOpen(i)
  /\ sockets[i].readyState = "CLOSING"
  /\ sockets'[i].readyState = "CLOSED"

NoneConnectingOrOpen == \A i \in 1..Len(sockets) : ~Live(i)

\* C11: disconnect() leaves every pending reconnect timer pending; when a
\* reconnect timer fires while no transport is connecting or open,
\* connect() runs and creates a new transport, which becomes the handle.
C11_TimerOutlivesDisconnect ==
  [][ /\ OwnerDisconnects => timers' = timers
      /\ (TimerFires /\ NoneConnectingOrOpen)
         => /\ Len(sockets') = Len(sockets) + 1
            /\ ws' = Len(sockets') ]_vars

EndsWith(s, p) ==
  Len(s) >= Len(p) /\ SubSeq(s, Len(s) - Len(p) + 1, Len(s)) = p

\* C12: getClientId() returns the same value in every state, no step
\* changes it (disconnect() and reconnects included), and every transport
\* is addressed with '/ws/' followed by that identifier.
C12_ClientIdFixed ==
  /\ [][getClientId' = getClientId]_vars
  /\ [](\A i \in 1..Len(sockets) :
          EndsWith(sockets[i].url, <<"/","w","s","/">> \o getClientId))

\* After a disconnect() and two reconnects the third transport still
\* carries the identifier.
C12_Witness ==
  /\ calls.disconnect >= 1 /\ calls.connect = 1
  /\ Len(sockets) = 3
  /\ getClientId = <<"c","1">>
  /\ EndsWith(sockets[3].url, <<"/","w","s","/","c","1">>)

\* The service constructed under any of the configurations.
InitUrl ==
  /\ API_BASE_URL \in UrlBases
  /\ clientId \in UrlClientIds
  /\ sockets = << >>
  /\ ws = NULL
  /\ isConnecting = FALSE
  /\ reconnectAttempts = 0
  /\ pingInterval = NULL
  /\ intervals = {}
  /\ timers = EmptyBag
  /\ onConnectionChangeCallback = NULL
  /\ notified = << >>
  /\ connected = "none"
  /\ calls = [connect |-> 0, disconnect |-> 0]
  /\ gaveUp = FALSE
  /\ backoff = << >>
  /\ onProgressCallback = NULL
  /\ frames = 0
  /\ rawData = NoData
  /\ delivered = << >>
  /\ progress = NoData
  /\ sent = << >>
  /\ PageClosed

\* connect() and the reconnects it leads to, under each configuration.
SpecUrl == InitUrl /\ [][NextNoOpen]_vars

\* C13: the target of every transport is the base address with its
\* leading 'http' replaced by 'ws', followed by '/ws/' and the client
\* identifier; the rest of the base address is unchanged.
\* http://host:1234 gives ws://host:1234/ws/<clientId> and https://host
\* gives wss://host/ws/<clientId>.
C13_TargetFromBase ==
  \A i \in 1..Len(sockets) :
    /\ HasPrefix(API_BASE_URL, Chars("http"))
         => sockets[i].url =
              Chars("ws") \o SubSeq(API_BASE_URL, 5, Len(API_BASE_URL))
                \o Chars("/ws/") \o clientId
    /\ API_BASE_URL = Chars("http://host:1234")
         => sockets[i].url = Chars("ws://host:1234/ws/") \o clientId
    /\ API_BASE_URL = Chars("https://host")
         => sockets[i].url = Chars("wss://host/ws/") \o clientId

\* A reconnect under the https configuration.
C13_Witness ==
  /\ API_BASE_URL = Chars("https://host") /\ clientId = Chars("k9x")
  /\ Len(sockets) = 2
  /\ sockets[2].url = Chars("wss://host/ws/k9x")

\* A step that handles a frame, and what it did with it.
FrameHandled == frames' = frames + 1
ListenerCalls == Len(delivered') - Len(delivered)
Has(ev, k, v) == k \in DOMAIN ev /\ ev[k] = v

\* The messages among the frames that a noise pattern matches.
NoiseMessages == {"Downloading webpage", "x [DEBUG] y", "Downloading api"}

DebugWebpage ==
  JSONObject(<< <<"status", "log">>, <<"level", "debug">>,
                <<"message", "Downloading webpage">> >>)
InfoWebpage ==
  JSONObject(<< <<"status", "log">>, <<"level", "info">>,
                <<"message", "Downloading webpage">> >>)

NoisyDebug(ev) ==
  /\ Has(ev, "status", "log")
  /\ Has(ev, "level", "debug")
  /\ \E m \in NoiseMessages : Has(ev, "message", m)

\* The listener is called once, with the decoded JSON of the frame.
DeliveredAsDecoded ==
  /\ ListenerCalls = 1
  /\ delivered'[Len(delivered')] = [n |-> frames', cb |-> onProgressCallback]
  /\ progress' = JSONParse(rawData').value

C16_ParseErrorIsHarmless ==
  [][ /\ (FrameHandled /\ rawData'.json = "garbage")
         => /\ UNCHANGED <<sockets, ws, isConnecting, reconnectAttempts,
                           pingInterval, intervals, timers, connected,
                           delivered, progress, onProgressCallback,
                           onConnectionChangeCallback>>
            /\ notified' = << >>
      /\ ( /\ FrameHandled /\ rawData = NotJSON
           /\ onProgressCallback # NULL
           /\ rawData'.json = "object" /\ ~NoisyDebug(JSONParse(rawData').value) )
         => ListenerCalls = 1 ]_vars

\* The second frame failed to parse; the listener, called for the first
\* frame, was not called again, and the transport is still open with its
\* keep-alive running.
C16_Witness ==
  /\ frames = 2 /\ rawData = NotJSON
  /\ Len(delivered) = 1 /\ delivered[1].n = 1
  /\ Len(sockets) = 1 /\ sockets[1].readyState = "OPEN" /\ ws = 1
  /\ pingInterval = 1 /\ pingInterval \in intervals

\* C17: the events passed to the progress listener are a subsequence of
\* the frames received, in arrival order: their arrival numbers strictly
\* increase (none early, none twice), and an event is passed in the very
\* step that handles its frame, one at most per step (none held back).
C17_DeliveredInArrivalOrder ==
  /\ [](\A j \in 1..Len(delivered) :
          /\ delivered[j].n \in 1..frames
          /\ j > 1 => delivered[j - 1].n < delivered[j].n)
  /\ [][ delivered' # delivered
         => /\ FrameHandled
            /\ delivered' = Append(delivered, delivered'[Len(delivered')])
            /\ delivered'[Len(delivered')].n = frames'
            /\ progress' = JSONParse(rawData').value ]_vars

\* Of three frames the first and the third were passed on.
C17_Witness ==
  /\ frames = 3
  /\ Len(delivered) = 2 /\ delivered[1].n = 1 /\ delivered[2].n = 3

\* A close event (alone or after an error event) is handled for i.
Closes(i) ==
  sockets[i].readyState # "CLOSED" /\ sockets'[i].readyState = "CLOSED"
\* connect() ran past its guards and created no transport: the
\* constructor threw.
ConstructFails ==
  /\ OwnerConnects \/ TimerFires
  /\ ~isConnecting
  /\ ~(ws # NULL /\ sockets[ws].readyState = "OPEN")
  /\ Len(sockets') = Len(sockets)
ToldTrue == \E k \in 1..Len(notified') : notified'[k].arg = TRUE
ToldFalse == \E k \in 1..Len(notified') : notified'[k].arg = FALSE

\* C18: with a connection-change listener registered, it is called with
\* true in exactly the steps that handle an open event, and with false in
\* exactly the steps that handle a close event, an error event or a
\* failure to construct the transport; a call with true is for the
\* transport that has just opened.
C18_ListenerToldTruth ==
  [][ onConnectionChangeCallback # NULL
      => /\ ToldTrue <=> \E i \in 1..Len(sockets) : Opens(i)
         /\ ToldFalse <=> \/ \E i \in 1..Len(sockets) : Closes(i)
                          \/ ConstructFails
         /\ ToldTrue => notified' = <<[cb |-> onConnectionChangeCallback,
                                       arg |-> TRUE]>> ]_vars

\* The listener has heard false for transport 1 and then true for
\* transport 2, which is open.
C18_Witness ==
  /\ Len(sockets) = 2
  /\ sockets[1].readyState = "CLOSED" /\ sockets[2].readyState = "OPEN"
  /\ notified = <<[cb |-> 1, arg |-> TRUE]>>
  /\ connected = TRUE
  /\ calls.connect = 1 /\ onConnectionChangeCallback = 1

\* What every failure does: the registered listener hears false, and
\* isConnecting is reset.
FailureReported ==
  /\ onConnectionChangeCallback # NULL => (ToldFalse /\ connected' = FALSE)
  /\ isConnecting' = FALSE

\* A close event below the ceiling schedules one reconnect.
CloseSchedules ==
  \A i \in 1..Len(sockets) :
    Closes(i)
    => /\ FailureReported
       /\ IF reconnectAttempts < 3
          THEN /\ Pending' = Pending + 1
               /\ reconnectAttempts' = reconnectAttempts + 1
          ELSE UNCHANGED <<timers, reconnectAttempts>>

\* C19 as stated: every transport failure, a failure to construct the
\* transport included, is reported as false, resets isConnecting and,
\* below 3 attempted reconnects, schedules a reconnect.
C19_EveryFailureSchedules ==
  [][ /\ CloseSchedules
      /\ ConstructFails
         => /\ FailureReported
            /\ reconnectAttempts < 3 =>
                 \E t \in BagToSet(timers') :
                   CopiesIn(t, timers') > CopiesIn(t, timers) ]_vars

\* C19, amended: a close event (alone or after an error event) is
\* reported as false, resets isConnecting and, below 3 attempted
\* reconnects, schedules a reconnect; a failure to construct the
\* transport is reported as false and resets isConnecting, so that a later
\* connect() tries again, but schedules no reconnect.
C19_FailureReportedCloseSchedules ==
  [][ /\ CloseSchedules
      /\ ConstructFails
         => /\ FailureReported
            /\ notified' = Notify(<< >>, FALSE)
            /\ \A t \in BagToSet(timers') :
                 CopiesIn(t, timers') <= CopiesIn(t, timers)
            /\ UNCHANGED <<reconnectAttempts, sockets, ws>> ]_vars

\* The constructor threw in two calls of connect(): the second call was
\* not stopped by isConnecting, the listener heard false, and no
\* reconnect is scheduled.
C19_Witness ==
  /\ calls = [connect |-> 2, disconnect |-> 0]
  /\ sockets = << >> /\ isConnecting = FALSE
  /\ notified = <<[cb |-> 1, arg |-> FALSE]>>
  /\ timers = EmptyBag /\ reconnectAttempts = 0

\* C20: a registration replaces the listener: each event is passed to one
\* listener, the one registered last (the slot holds it, whatever
\* transport the event arrives on), never to one registered before; the
\* same holds for the connection-change listener.
C20_LastRegisteredOnly ==
  [][ /\ \A cb \in ProgressListeners :
           (onProgressCallback' # onProgressCallback /\ onProgressCallback' = cb)
           => UNCHANGED <<delivered, progress, sockets>>
      /\ FrameHandled
         => /\ ListenerCalls \in {0, 1}
            /\ ListenerCalls = 1
                 => /\ onProgressCallback # NULL
                    /\ delivered'[Len(delivered')].cb = onProgressCallback
                    /\ onProgressCallback' = onProgressCallback
      /\ \A k \in 1..Len(notified') :
           /\ onConnectionChangeCallback # NULL
           /\ notified'[k].cb = onConnectionChangeCallback
           /\ onConnectionChangeCallback' = onConnectionChangeCallback ]_vars

\* On transport 1 the first event went to listener 1 and, after listener 2
\* replaced it, the second event went to listener 2; transport 2 has just
\* opened and told connection-change listener 2.
C20_Witness ==
  /\ Len(sockets) = 2 /\ sockets[2].readyState = "OPEN"
  /\ delivered = <<[n |-> 1, cb |-> 1], [n |-> 2, cb |-> 2]>>
  /\ onProgressCallback = 2
  /\ notified = <<[cb |-> 2, arg |-> TRUE]>>

\* C21: every frame the channel sends is the text 'ping', sent on a
\* transport that is OPEN and is the current one at that moment; a step
\* sends at most one frame; a step that sends changes nothing else, and
\* with the current transport not OPEN (or none held) no frame is sent.
C21_PingOnlyWhenOpen ==
  /\ [](\A j \in 1..Len(sent) :
          sent[j].data = "ping" /\ sent[j].readyState = "OPEN")
  /\ [][ sent' # sent
         => /\ ws # NULL /\ sockets[ws].readyState = "OPEN"
            /\ sent' = Append(sent, [to |-> ws, data |-> "ping",
                                     readyState |-> "OPEN"])
            /\ UNCHANGED <<sockets, svcVars, intervals, timers, calls,
                           delivered, connected>>
            /\ notified' = << >> ]_vars

\* Transport 1 was sent a ping while open; it has closed since, transport
\* 2 is connecting, and no further frame was sent.
C21_Witness ==
  /\ sent = <<[to |-> 1, data |-> "ping", readyState |-> "OPEN"]>>
  /\ Len(sockets) = 2 /\ sockets[1].readyState = "CLOSED"
  /\ sockets[2].readyState = "CONNECTING" /\ ws = 2

\* C22: no handler run by an event or a timer (a call of connect() by the
\* owner is not one) lets an exception leave it, whatever the listeners do,
\* and a listener that fails does not keep a handler from finishing: a
\* close event below the ceiling still schedules its reconnect.
C22_NothingEscapes ==
  [][ /\ ~(Escapes /\ ~OwnerConnects)
      /\ \A i \in 1..Len(sockets) :
           (Closes(i) /\ reconnectAttempts < maxReconnectAttempts)
           => /\ reconnectAttempts' = reconnectAttempts + 1
              /\ Pending' = Pending + 1 ]_vars

\* The saved link of a mount is expired or cannot be parsed.
SavedIsStale ==
  LET saved == CookiesGet(now)
  IN /\ saved # NoCookie
     /\ \/ saved.value.syntax \in {"empty", "invalid", "null"}
        \/ saved.value.value = EmptyObject
        \/ now >= ExpiryTime(saved.value.value)

\* C23: after the restore of a mount and after every tick of the countdown
\* a link that is kept is unexpired; a saved link that is expired or
\* cannot be parsed is not restored and its cookie is removed; a tick at
\* or after the expiry time clears the link and removes the cookie.
C23_LinkKeptOnlyWhileUnexpired ==
  [][ /\ (Mount \/ Tick)
        => (downloadLink' # NoLink => now' < ExpiryTime(downloadLink'))
      /\ (Mount /\ SavedIsStale)
        => (downloadLink' = NoLink /\ cookie' = NoCookie)
      /\ (Tick /\ now >= ExpiryTime(downloadLink))
        => (downloadLink' = NoLink /\ cookie' = NoCookie) ]_vars

\* A link was restored, its time has come, and the tick has cleared it.
C23_Witness ==
  /\ mounted
  /\ timeLeft = "Expired"
  /\ downloadLink = NoLink
  /\ cookie = NoCookie
  /\ ~isLoadingInfo

\* C24: while the transport the handle references is OPEN, the interval
\* recorded in pingInterval is active.
C24_KeepAliveWhileOpen ==
  (ws # NULL /\ sockets[ws].readyState = "OPEN")
  => (pingInterval # NULL /\ pingInterval \in intervals)

\* C25: at most one keep-alive interval is active at any time, and none
\* when the handle is null after disconnect().
C25_AtMostOneInterval ==
  /\ Cardinality(intervals) <= 1
  /\ intervals # {} => pingInterval \in intervals

\* C26: isConnecting is true exactly when the transport the handle
\* references is still CONNECTING; it is false when the handle is null.
C26_ConnectingExactlyWhilePending ==
  isConnecting = (ws # NULL /\ sockets[ws].readyState = "CONNECTING")

\* C27: once a value has been passed to the connection-change listener,
\* the value passed most recently is true if and only if the transport
\* the handle references is OPEN.
C27_ListenerMatchesCurrent ==
  ToString(connected) \in {"TRUE", "FALSE"}
  => ( (ToString(connected) = "TRUE")
       <=> (ws # NULL /\ sockets[ws].readyState = "OPEN") )

\* C28: every event passed to the progress listener was received on the
\* transport the handle references at that moment; none is passed while
\* the handle is null, and none from a transport that has been replaced.
C28_OnlyFromCurrentTransport ==
  [][ \A i \in 1..Len(sockets) : \A raw \in Frames :
        (OnMessage(i, raw) /\ delivered' # delivered) => ws = i ]_vars

\* C29: reconnectAttempts stays in 0..3; it grows only by 1 and only in a
\* close event that schedules a reconnect; it shrinks only to 0 and only
\* in an open event; every reconnect timer scheduled comes with exactly
\* one such increment.
C29_AttemptsCountSchedules ==
  /\ [](reconnectAttempts \in 0..maxReconnectAttempts)
  /\ [][ /\ reconnectAttempts' > reconnectAttempts
            => /\ reconnectAttempts' = reconnectAttempts + 1
               /\ \E i \in 1..Len(sockets) : Closes(i)
               /\ Pending' = Pending + 1
         /\ reconnectAttempts' < reconnectAttempts
            => /\ reconnectAttempts' = 0
               /\ \E i \in 1..Len(sockets) : Opens(i)
         /\ Pending' > Pending
            => /\ Pending' = Pending + 1
               /\ reconnectAttempts' = reconnectAttempts + 1 ]_vars

\* One reconnect was scheduled, an open reset the counter, and a second
\* close scheduled the next one while the first timer is still pending.
C29_Witness ==
  /\ reconnectAttempts = 1
  /\ Pending = 2
  /\ backoff = <<BackoffDelay(1)>>

\* C30: connect(), called by the owner or by a reconnect timer, and
\* disconnect() leave reconnectAttempts unchanged; a close event at the
\* ceiling schedules nothing and leaves the counter at the ceiling; the
\* counter drops only in an open event.
C30_BudgetRestoredOnlyByOpen ==
  [][ /\ (OwnerConnects \/ OwnerDisconnects \/ TimerFires)
         => reconnectAttempts' = reconnectAttempts
      /\ \A i \in 1..Len(sockets) :
           (Closes(i) /\ reconnectAttempts = maxReconnectAttempts)
           => /\ Pending' = Pending
              /\ reconnectAttempts' = maxReconnectAttempts
      /\ reconnectAttempts' < reconnectAttempts
         => \E i \in 1..Len(sockets) : Opens(i) ]_vars

\* Reconnection was exhausted, the owner connected once more, and that
\* transport closed too: nothing is pending and the counter is still 3.
C30_Witness ==
  /\ Len(sockets) = 5
  /\ \A i \in 1..Len(sockets) : sockets[i].readyState = "CLOSED"
  /\ calls = [connect |-> 2, disconnect |-> 0]
  /\ reconnectAttempts = maxReconnectAttempts
  /\ Pending = 0

====
